---- MODULE Spec2Model ----
(***************************************************************************)
(* The turn protocol of my-little-robots' Python players: the JSON codec   *)
(* of mlr_py/api.py and the single-shot session drivers api.do_turn and    *)
(* python-player.py's read_stdin_and_do_turn.                              *)
(*                                                                         *)
(* Text is a sequence of symbols.  Every symbol is a piece of text that    *)
(* holds no line break, except NL, the line break itself; the sentinel     *)
(* literal is the symbol SENTINEL.  Standard output is the sequence of the *)
(* texts written by the print() calls; its lines are found by splitting    *)
(* the concatenation of those texts at NL.                                 *)
(*                                                                         *)
(* A line of standard input is either text that json.loads rejects, or the *)
(* JSON text of a document, which is represented by the value json.loads   *)
(* returns for it.  A JSON object is a function on its keys, so a missing  *)
(* field is a key that is not in its domain.                               *)
(*                                                                         *)
(* One behaviour follows the invocations of one driver on the same         *)
(* standard input with the same turn function: for api.do_turn one         *)
(* invocation with debug=True and one with debug=False, side by side, for  *)
(* read_stdin_and_do_turn (that has no debug parameter) a single one.      *)
(***************************************************************************)
EXTENDS Integers, Sequences, FiniteSets, TLC

VARIABLES driver, stdin, turn_function, pc, nread, line, player_input,
          player_output, calls, stdout

vars == <<driver, stdin, turn_function, pc, nread, line, player_input,
          player_output, calls, stdout>>

\* ------------------------------------------------------------------ bounds
MaxUnits == 2
MaxTiles == 2
MaxLines == 2

\* -------------------------------------------------------------- text model
NL == "\n"
SENTINEL == "__mlr_output:"

RECURSIVE Flatten(_)
Flatten(texts) ==
    IF texts = <<>> THEN <<>> ELSE Head(texts) \o Flatten(Tail(texts))

\* s.join(parts) of Python, on texts.
RECURSIVE Join(_, _)
Join(parts, sep) ==
    IF parts = <<>> THEN <<>>
    ELSE IF Len(parts) = 1 THEN parts[1]
    ELSE parts[1] \o sep \o Join(Tail(parts), sep)

\* The lines of a text: the pieces that end with NL (a last piece that
\* no NL ends is a line too).
RECURSIVE SplitLines(_, _)
SplitLines(text, cur) ==
    IF text = <<>> THEN (IF cur = <<>> THEN <<>> ELSE <<cur>>)
    ELSE IF Head(text) = NL THEN <<cur>> \o SplitLines(Tail(text), <<>>)
    ELSE SplitLines(Tail(text), Append(cur, Head(text)))

Lines(out) == SplitLines(Flatten(out), <<>>)

StartsWithSentinel(text) == text # <<>> /\ text[1] = SENTINEL

SentinelLines(out) == SelectSeq(Lines(out), StartsWithSentinel)

\* ------------------------------------------------------------- JSON values
JNull == [t |-> "null"]
JInt(i) == [t |-> "int", int |-> i]
JBool(b) == [t |-> "bool", bool |-> b]
JStr(s) == [t |-> "str", str |-> s]
JList(l) == [t |-> "list", list |-> l]
JDict(d) == [t |-> "dict", dict |-> d]

\* The memory values of the model.  A list holds integers; a dict is the
\* sequence of its <<key, integer>> items in insertion order.
MemoryValues ==
    { JNull, JInt(0), JInt(7), JBool(FALSE), JBool(TRUE),
      JStr(<<>>), JStr(<<"a">>), JStr(<<"a", NL, SENTINEL, "x">>),
      JList(<<>>), JList(<<0>>), JDict(<<>>), JDict(<< <<"k", 1>> >>) }

\* A call either returns a value or raises.
Ok(v) == [ok |-> TRUE, val |-> v]
Raise(e) == [ok |-> FALSE, err |-> e]

HasKey(json, k) == k \in DOMAIN json

\* ------------------------------------------------------------------- enums
TileType == {"WALL", "FLOOR", "EXIT"}
Direction == {"LEFT", "RIGHT", "UP", "DOWN"}
ActionType == {"MOVE"}

\* The .value of an enum member.
EnumValue(member) ==
    CASE member = "WALL" -> "wall"
      [] member = "FLOOR" -> "floor"
      [] member = "EXIT" -> "exit"
      [] member = "LEFT" -> "left"
      [] member = "RIGHT" -> "right"
      [] member = "UP" -> "up"
      [] member = "DOWN" -> "down"
      [] member = "MOVE" -> "move"

\* ------------------------------------------------------------------ decode
\* TileType.from_json with an unknown tag refused.
TileType_from_json_strict(json) ==
    IF ~HasKey(json, "type") THEN Raise("KeyError")
    ELSE LET t == json["type"] IN
         IF t = "wall" THEN Ok("WALL")
         ELSE IF t = "floor" THEN Ok("FLOOR")
         ELSE IF t = "exit" THEN Ok("EXIT")
         ELSE Raise("ValueError")

\* TileType.from_json: json is the tile object.
TileType_from_json(json) ==
    IF ~HasKey(json, "type") THEN Raise("KeyError")
    ELSE LET t == json["type"] IN
         IF t = "wall" THEN Ok("WALL")
         ELSE IF t = "floor" THEN Ok("FLOOR")
         ELSE IF t = "exit" THEN Ok("EXIT")
         ELSE Ok("WALL")

\* json[i] of Python for the integer index i (0-based) on a JSON value.
Subscript(json, i) ==
    IF json.t = "list"
    THEN IF i < Len(json.list) THEN Ok(json.list[i + 1]) ELSE Raise("IndexError")
    ELSE IF json.t = "str"
    THEN IF i < Len(json.str) THEN Ok(json.str[i + 1]) ELSE Raise("IndexError")
    ELSE IF json.t = "dict" THEN Raise("KeyError")
    ELSE Raise("TypeError")

Coord(x, y) == [x |-> x, y |-> y]

\* Coord.from_json with the two elements taken in the other order.
Coord_from_json_swapped(json) ==
    LET a == Subscript(json, 0)
        b == Subscript(json, 1)
    IN  IF ~a.ok THEN a
        ELSE IF ~b.ok THEN b
        ELSE Ok(Coord(b.val, a.val))

Coord_from_json(json) ==
    LET a == Subscript(json, 0)
        b == Subscript(json, 1)
    IN  IF ~a.ok THEN a
        ELSE IF ~b.ok THEN b
        ELSE Ok(Coord(a.val, b.val))

Tile(tile_type, coord) == [tile_type |-> tile_type, coord |-> coord]

Tile_from_json(json) ==
    LET tt == TileType_from_json(json) IN
    IF ~tt.ok THEN tt
    ELSE IF ~HasKey(json, "coord") THEN Raise("KeyError")
    ELSE LET c == Coord_from_json(json["coord"]) IN
         IF ~c.ok THEN c ELSE Ok(Tile(tt.val, c.val))

Unit(id, player, location) == [id |-> id, player |-> player, location |-> location]

\* One pass of the loop over json["units"] in PlayerWorld.from_json.
PlayerWorld_unit(u) ==
    IF ~HasKey(u, "id") THEN Raise("KeyError")
    ELSE IF ~HasKey(u, "player") THEN Raise("KeyError")
    ELSE IF ~HasKey(u, "location") THEN Raise("KeyError")
    ELSE LET c == Coord_from_json(u["location"]) IN
         IF ~c.ok THEN c ELSE Ok(Unit(u["id"], u["player"], c.val))

\* The two loops of PlayerWorld.from_json: the elements decoded in order,
\* the first failure ending the loop.
RECURSIVE DecodeUnits(_, _)
DecodeUnits(todo, units) ==
    IF todo = <<>> THEN Ok(units)
    ELSE LET r == PlayerWorld_unit(Head(todo)) IN
         IF ~r.ok THEN r ELSE DecodeUnits(Tail(todo), Append(units, r.val))

RECURSIVE DecodeTiles(_, _)
DecodeTiles(todo, tiles) ==
    IF todo = <<>> THEN Ok(tiles)
    ELSE LET r == Tile_from_json(Head(todo)) IN
         IF ~r.ok THEN r ELSE DecodeTiles(Tail(todo), Append(tiles, r.val))

PlayerWorld(units, tiles) == [units |-> units, tiles |-> tiles]

PlayerWorld_from_json(json) ==
    IF ~HasKey(json, "units") THEN Raise("KeyError")
    ELSE LET us == DecodeUnits(json["units"], <<>>) IN
         IF ~us.ok THEN us
         ELSE IF ~HasKey(json, "tiles") THEN Raise("KeyError")
         ELSE LET ts == DecodeTiles(json["tiles"], <<>>) IN
              IF ~ts.ok THEN ts ELSE Ok(PlayerWorld(us.val, ts.val))

PlayerInput(player_id, turn, player_world, memory) ==
    [player_id |-> player_id, turn |-> turn,
     player_world |-> player_world, memory |-> memory]

\* PlayerInput.from_json with a default in place of a missing top-level field.
PlayerInput_from_json_lenient(json) ==
    LET w == IF HasKey(json, "world") THEN PlayerWorld_from_json(json["world"])
             ELSE Ok(PlayerWorld(<<>>, <<>>))
    IN  IF ~w.ok THEN w
        ELSE Ok(PlayerInput(IF HasKey(json, "player_id") THEN json["player_id"] ELSE 0,
                            IF HasKey(json, "turn") THEN json["turn"] ELSE 0,
                            w.val,
                            IF HasKey(json, "memory") THEN json["memory"] ELSE JNull))

PlayerInput_from_json(json) ==
    IF ~HasKey(json, "player_id") THEN Raise("KeyError")
    ELSE IF ~HasKey(json, "turn") THEN Raise("KeyError")
    ELSE IF ~HasKey(json, "world") THEN Raise("KeyError")
    ELSE LET w == PlayerWorld_from_json(json["world"]) IN
         IF ~w.ok THEN w
         ELSE IF ~HasKey(json, "memory") THEN Raise("KeyError")
         ELSE Ok(PlayerInput(json["player_id"], json["turn"], w.val, json["memory"]))

from_json(json) == PlayerInput_from_json(json)

\* json.loads on a line of standard input.
json_loads(l) == IF l.json THEN Ok(l.doc) ELSE Raise("JSONDecodeError")

\* ----------------------------------------------------------- derived views
PlayerWorld_get_units_for(world, player_id) ==
    LET mine(u) == u.id = player_id IN SelectSeq(world.units, mine)

PlayerInput_get_my_units(input) ==
    PlayerWorld_get_units_for(input.player_world, input.player_id)

\* ------------------------------------------------------------------ encode
PlayerAction(unit_id, dir) == [unit_id |-> unit_id, direction |-> dir, type |-> "MOVE"]

PlayerAction_serialize(a) ==
    [action |-> EnumValue(a.type), unit |-> a.unit_id,
     direction |-> EnumValue(a.direction)]

\* bool(v) of Python on a JSON value.
Truthy(v) ==
    CASE v.t = "null" -> FALSE
      [] v.t = "int" -> v.int # 0
      [] v.t = "bool" -> v.bool
      [] v.t = "str" -> v.str # <<>>
      [] v.t = "list" -> v.list # <<>>
      [] v.t = "dict" -> v.dict # <<>>

\* PlayerOutput.__init__
PlayerOutput(actions, memory) ==
    [actions |-> actions, memory |-> IF Truthy(memory) THEN memory ELSE JDict(<<>>)]

\* The dict that to_json hands to json.dumps.
PlayerOutput_output(o) ==
    [actions |-> [i \in 1..Len(o.actions) |-> PlayerAction_serialize(o.actions[i])],
     memory |-> o.memory]

\* json.dumps escapes a line break inside a string.
EscapeSymbol(c) == IF c = NL THEN "\\n" ELSE c

Quoted(s) == <<"\"">> \o [i \in 1..Len(s) |-> EscapeSymbol(s[i])] \o <<"\"">>

DumpsItem(kv) == <<"\"", kv[1], "\": ", ToString(kv[2])>>

\* json.dumps on a JSON value of the model.
Dumps(v) ==
    CASE v.t = "null" -> <<"null">>
      [] v.t = "int" -> <<ToString(v.int)>>
      [] v.t = "bool" -> IF v.bool THEN <<"true">> ELSE <<"false">>
      [] v.t = "str" -> Quoted(v.str)
      [] v.t = "list" ->
           <<"[">> \o Join([i \in 1..Len(v.list) |-> <<ToString(v.list[i])>>], <<", ">>)
                   \o <<"]">>
      [] v.t = "dict" ->
           <<"{">> \o Join([i \in 1..Len(v.dict) |-> DumpsItem(v.dict[i])], <<", ">>)
                   \o <<"}">>

DumpsAction(a) ==
    <<"{\"action\": \"", a.action, "\", \"unit\": ", ToString(a.unit),
      ", \"direction\": \"", a.direction, "\"}">>

\* PlayerOutput.to_json: the JSON text of the output.
PlayerOutput_to_json(o) ==
    LET output == PlayerOutput_output(o) IN
    <<"{\"actions\": [">>
        \o Join([i \in 1..Len(output.actions) |-> DumpsAction(output.actions[i])], <<", ">>)
        \o <<"], \"memory\": ">> \o Dumps(output.memory) \o <<"}">>

\* -------------------------------------------------------------------- repr
Coord_repr(c) == <<"Coord(", ToString(c.x), ", ", ToString(c.y), ")">>

Tile_repr(t) == <<"Tile(", "TileType." \o t.tile_type, ", ">> \o Coord_repr(t.coord) \o <<")">>

\* player= renders self.id, as the source has it.
Unit_repr(u) ==
    <<"Unit(id=", ToString(u.id), ", player=", ToString(u.id), ", location=">>
        \o Coord_repr(u.location) \o <<")">>

PlayerWorld_repr(w) ==
    <<"PlayerWorld(units=[">>
        \o Join([i \in 1..Len(w.units) |-> Unit_repr(w.units[i])], <<", ">>)
        \o <<"], tiles=[">>
        \o Join([i \in 1..Len(w.tiles) |-> Tile_repr(w.tiles[i])], <<", ">>)
        \o <<"])">>

StrItem(kv) == <<"'", kv[1], "': ", ToString(kv[2])>>

\* str(v) of Python, which is what an f-string renders: a string is
\* rendered as it is, unquoted and unescaped.
Str(v) ==
    CASE v.t = "null" -> <<"None">>
      [] v.t = "int" -> <<ToString(v.int)>>
      [] v.t = "bool" -> IF v.bool THEN <<"True">> ELSE <<"False">>
      [] v.t = "str" -> v.str
      [] v.t = "list" ->
           <<"[">> \o Join([i \in 1..Len(v.list) |-> <<ToString(v.list[i])>>], <<", ">>)
                   \o <<"]">>
      [] v.t = "dict" ->
           <<"{">> \o Join([i \in 1..Len(v.dict) |-> StrItem(v.dict[i])], <<", ">>)
                   \o <<"}">>

PlayerInput_repr(input) ==
    <<"PlayerInput(player_id=", ToString(input.player_id),
      ", turn=", ToString(input.turn), ", player_world=">>
        \o PlayerWorld_repr(input.player_world)
        \o <<", memory=">> \o Str(input.memory) \o <<")">>

\* print(text): one write of the text and a line break.
print(out, text) == Append(out, text \o <<NL>>)

\* ---------------------------------------------------------- turn functions
\* The player's logic is a parameter of the driver.  "moves" is the turn of
\* example_player.py with the direction fixed (a deterministic instance of
\* its random choice); "remember" hands the memory it received back and
\* takes no action; "raises" fails.  A turn function writes nothing.
TurnFunctions ==
    [kind : {"moves"}, dir : Direction] \cup [kind : {"remember", "raises"}, dir : {"LEFT"}]

turn(tf, input) ==
    CASE tf.kind = "raises" -> Raise("Exception")
      [] tf.kind = "remember" -> Ok(PlayerOutput(<<>>, input.memory))
      [] tf.kind = "moves" ->
           LET mine == PlayerInput_get_my_units(input) IN
           Ok(PlayerOutput([i \in 1..Len(mine) |-> PlayerAction(mine[i].id, tf.dir)],
                           JNull))

\* ------------------------------------------------------------------ inputs
UnitIds == {1, 2}
PlayerIds == {1, 2}
Tags == {"wall", "floor", "exit", "lava"}

SeqsUpTo(S, n) == UNION {[1..k -> S] : k \in 0..n}

Without(json, k) == [f \in DOMAIN json \ {k} |-> json[f]]

UnitJson(id, player, location) == [id |-> id, player |-> player, location |-> location]
TileJson(type, coord) == [type |-> type, coord |-> coord]

Document(player_id, units, tiles, memory) ==
    [player_id |-> player_id, turn |-> 0,
     world |-> [units |-> units, tiles |-> tiles], memory |-> memory]

\* The wire shapes tried for a coordinate: the 2-element array, shorter and
\* longer arrays, a field-keyed object, and null.
PositionalCoords == {JList(<<3, 4>>), JList(<<4, 3>>)}
OtherCoords ==
    {JList(<<3>>), JList(<<3, 4, 5>>), JDict(<< <<"x", 3>>, <<"y", 4>> >>), JNull}

OneUnit == UnitJson(1, 1, JList(<<3, 4>>))
OneTile == TileJson("floor", JList(<<3, 4>>))

\* Documents that differ in their units, in their tiles, in their memory.
UnitDocs ==
    {Document(p, us, <<>>, JNull) :
        p \in PlayerIds,
        us \in SeqsUpTo({UnitJson(i, q, JList(<<3, 4>>)) : i \in UnitIds, q \in PlayerIds},
                        MaxUnits)}
TileDocs ==
    {Document(1, <<OneUnit>>, ts, JNull) :
        ts \in SeqsUpTo({TileJson(tg, JList(<<3, 4>>)) : tg \in Tags}, MaxTiles)}
MemoryDocs == {Document(1, <<OneUnit>>, <<OneTile>>, m) : m \in MemoryValues}

\* Documents that differ in the wire shape of a unit's location and of a
\* tile's coord.
CoordDocs ==
    {Document(1, <<UnitJson(1, 1, l)>>, <<TileJson("exit", c)>>, JNull) :
        l \in PositionalCoords \cup OtherCoords, c \in PositionalCoords \cup OtherCoords}

\* Documents with one field taken out.
BaseDoc == Document(1, <<OneUnit, OneUnit>>, <<OneTile>>, JInt(7))
MissingFieldDocs ==
    {Without(BaseDoc, k) : k \in {"player_id", "turn", "world", "memory"}}
    \cup {[BaseDoc EXCEPT !.world = Without(@, k)] : k \in {"units", "tiles"}}
    \cup {[BaseDoc EXCEPT !.world.units[n] = Without(@, k)] :
            n \in 1..2, k \in {"id", "player", "location"}}
    \cup {[BaseDoc EXCEPT !.world.tiles[1] = Without(@, k)] : k \in {"type", "coord"}}

JsonLine(doc) == [json |-> TRUE, doc |-> doc]
NotJsonLine == [json |-> FALSE]

FirstLines ==
    {JsonLine(d) : d \in UnitDocs \cup TileDocs \cup MemoryDocs \cup CoordDocs
                         \cup MissingFieldDocs}
    \cup {NotJsonLine}

\* The lines that may follow the first one.
LaterLines == {NotJsonLine, JsonLine(Document(2, <<UnitJson(2, 2, JList(<<4, 3>>))>>, <<>>, JInt(7)))}

Stdins ==
    {<<>>} \cup {<<l>> \o rest : l \in FirstLines, rest \in SeqsUpTo(LaterLines, MaxLines - 1)}

\* ------------------------------------------------------------------- state
\* The invocations followed: their debug argument.
Runs == IF driver = "do_turn" THEN BOOLEAN ELSE {FALSE}

Init ==
    /\ driver \in {"do_turn", "read_stdin_and_do_turn"}
    /\ stdin \in Stdins
    /\ turn_function \in TurnFunctions
    /\ pc = [d \in Runs |-> "for"]
    /\ nread = [d \in Runs |-> 0]
    /\ line = [d \in Runs |-> <<>>]
    /\ player_input = [d \in Runs |-> <<>>]
    /\ player_output = [d \in Runs |-> <<>>]
    /\ calls = [d \in Runs |-> <<>>]
    /\ stdout = [d \in Runs |-> <<>>]

\* ----------------------------------------------------------------- do_turn
\* do_turn with the end of input raising instead of ending the loop.
do_turn_for_eof_raises(d) ==
    /\ driver = "do_turn"
    /\ pc[d] = "for"
    /\ IF nread[d] = Len(stdin)
       THEN /\ pc' = [pc EXCEPT ![d] = "fatal"]
            /\ UNCHANGED <<nread, line>>
       ELSE /\ line' = [line EXCEPT ![d] = <<stdin[nread[d] + 1]>>]
            /\ nread' = [nread EXCEPT ![d] = @ + 1]
            /\ pc' = [pc EXCEPT ![d] = "from_json"]
    /\ UNCHANGED <<driver, stdin, turn_function, player_input, player_output, calls, stdout>>

\* for line in sys.stdin: the next line, or the end of the loop.
do_turn_for(d) ==
    /\ driver = "do_turn"
    /\ pc[d] = "for"
    /\ IF nread[d] = Len(stdin)
       THEN /\ pc' = [pc EXCEPT ![d] = "done"]
            /\ UNCHANGED <<nread, line>>
       ELSE /\ line' = [line EXCEPT ![d] = <<stdin[nread[d] + 1]>>]
            /\ nread' = [nread EXCEPT ![d] = @ + 1]
            /\ pc' = [pc EXCEPT ![d] = "from_json"]
    /\ UNCHANGED <<driver, stdin, turn_function, player_input, player_output, calls, stdout>>

\* from_json(json.loads(line))
Decode(l) ==
    LET j == json_loads(l) IN IF ~j.ok THEN j ELSE from_json(j.val)

\* What do_turn prints once the input is decoded.
do_turn_input_prints(debug, input) ==
    IF debug THEN <<PlayerInput_repr(input)>> ELSE <<>>

\* What do_turn prints once the turn function has returned.
do_turn_output_prints(debug, output) ==
    (IF debug THEN <<PlayerOutput_to_json(output)>> ELSE <<>>)
        \o << <<SENTINEL>> \o PlayerOutput_to_json(output) >>

RECURSIVE PrintAll(_, _)
PrintAll(out, texts) ==
    IF texts = <<>> THEN out ELSE PrintAll(print(out, Head(texts)), Tail(texts))

do_turn_from_json(d) ==
    /\ driver = "do_turn"
    /\ pc[d] = "from_json"
    /\ LET r == Decode(line[d][1]) IN
       IF ~r.ok
       THEN /\ pc' = [pc EXCEPT ![d] = "fatal"]
            /\ UNCHANGED <<player_input, stdout>>
       ELSE /\ player_input' = [player_input EXCEPT ![d] = <<r.val>>]
            /\ stdout' = [stdout EXCEPT ![d] = PrintAll(@, do_turn_input_prints(d, r.val))]
            /\ pc' = [pc EXCEPT ![d] = "turn_function"]
    /\ UNCHANGED <<driver, stdin, turn_function, nread, line, player_output, calls>>

do_turn_turn_function(d) ==
    /\ driver = "do_turn"
    /\ pc[d] = "turn_function"
    /\ calls' = [calls EXCEPT ![d] = Append(@, player_input[d][1])]
    /\ LET r == turn(turn_function, player_input[d][1]) IN
       IF ~r.ok
       THEN /\ pc' = [pc EXCEPT ![d] = "fatal"]
            /\ UNCHANGED player_output
       ELSE /\ player_output' = [player_output EXCEPT ![d] = <<r.val>>]
            /\ pc' = [pc EXCEPT ![d] = "print"]
    /\ UNCHANGED <<driver, stdin, turn_function, nread, line, player_input, stdout>>

\* do_turn without the break: the loop goes on to the next line.
do_turn_print_no_break(d) ==
    /\ driver = "do_turn"
    /\ pc[d] = "print"
    /\ stdout' = [stdout EXCEPT ![d] =
                     PrintAll(@, do_turn_output_prints(d, player_output[d][1]))]
    /\ pc' = [pc EXCEPT ![d] = "for"]
    /\ UNCHANGED <<driver, stdin, turn_function, nread, line, player_input,
                   player_output, calls>>

\* The prints after the call, and the break that ends the loop.
do_turn_print(d) ==
    /\ driver = "do_turn"
    /\ pc[d] = "print"
    /\ stdout' = [stdout EXCEPT ![d] =
                     PrintAll(@, do_turn_output_prints(d, player_output[d][1]))]
    /\ pc' = [pc EXCEPT ![d] = "done"]
    /\ UNCHANGED <<driver, stdin, turn_function, nread, line, player_input,
                   player_output, calls>>

\* -------------------------------------------------- read_stdin_and_do_turn
read_stdin_for(d) ==
    /\ driver = "read_stdin_and_do_turn"
    /\ pc[d] = "for"
    /\ IF nread[d] = Len(stdin)
       THEN /\ pc' = [pc EXCEPT ![d] = "done"]
            /\ UNCHANGED <<nread, line>>
       ELSE /\ line' = [line EXCEPT ![d] = <<stdin[nread[d] + 1]>>]
            /\ nread' = [nread EXCEPT ![d] = @ + 1]
            /\ pc' = [pc EXCEPT ![d] = "from_json"]
    /\ UNCHANGED <<driver, stdin, turn_function, player_input, player_output, calls, stdout>>

read_stdin_from_json(d) ==
    /\ driver = "read_stdin_and_do_turn"
    /\ pc[d] = "from_json"
    /\ LET r == Decode(line[d][1]) IN
       IF ~r.ok
       THEN /\ pc' = [pc EXCEPT ![d] = "fatal"]
            /\ UNCHANGED player_input
       ELSE /\ player_input' = [player_input EXCEPT ![d] = <<r.val>>]
            /\ pc' = [pc EXCEPT ![d] = "turn_function"]
    /\ UNCHANGED <<driver, stdin, turn_function, nread, line, player_output, calls, stdout>>

\* The call, whose result is dropped, and the break that ends the loop.
read_stdin_turn_function(d) ==
    /\ driver = "read_stdin_and_do_turn"
    /\ pc[d] = "turn_function"
    /\ calls' = [calls EXCEPT ![d] = Append(@, player_input[d][1])]
    /\ pc' = [pc EXCEPT ![d] =
                 IF turn(turn_function, player_input[d][1]).ok THEN "done" ELSE "fatal"]
    /\ UNCHANGED <<driver, stdin, turn_function, nread, line, player_input,
                   player_output, stdout>>

\* The steps of the invocation d.
Step(d) ==
    \/ do_turn_for(d)
    \/ do_turn_from_json(d)
    \/ do_turn_turn_function(d)
    \/ do_turn_print(d)
    \/ read_stdin_for(d)
    \/ read_stdin_from_json(d)
    \/ read_stdin_turn_function(d)

Next ==
    \/ \E d \in Runs : do_turn_for(d)
    \/ \E d \in Runs : do_turn_from_json(d)
    \/ \E d \in Runs : do_turn_turn_function(d)
    \/ \E d \in Runs : do_turn_print(d)
    \/ \E d \in Runs : read_stdin_for(d)
    \/ \E d \in Runs : read_stdin_from_json(d)
    \/ \E d \in Runs : read_stdin_turn_function(d)

Spec == Init /\ [][Next]_vars

\* ------------------------------------------------------- terms of the claims
Terminated(d) == pc[d] \in {"done", "fatal"}

\* The writes that start with the sentinel.
ProtocolWrites(out) == SelectSeq(out, StartsWithSentinel)

IsPositional(c) == c.t = "list" /\ Len(c.list) = 2

\* A document that lacks one of player_id, turn, world, world.units,
\* world.tiles, a unit's location, a tile's coord.
LacksRequiredField(doc) ==
    \/ ~({"player_id", "turn", "world"} \subseteq DOMAIN doc)
    \/ ~({"units", "tiles"} \subseteq DOMAIN doc.world)
    \/ \E i \in 1..Len(doc.world.units) : "location" \notin DOMAIN doc.world.units[i]
    \/ \E i \in 1..Len(doc.world.tiles) : "coord" \notin DOMAIN doc.world.tiles[i]

\* A document with every field of the wire format.
HasEveryField(doc) ==
    /\ ~LacksRequiredField(doc)
    /\ "memory" \in DOMAIN doc
    /\ \A i \in 1..Len(doc.world.units) : {"id", "player"} \subseteq DOMAIN doc.world.units[i]
    /\ \A i \in 1..Len(doc.world.tiles) : "type" \in DOMAIN doc.world.tiles[i]

\* A line of the wire format: every field, every coordinate a 2-element array.
WellFormedLine(l) ==
    /\ l.json
    /\ HasEveryField(l.doc)
    /\ \A i \in 1..Len(l.doc.world.units) : IsPositional(l.doc.world.units[i].location)
    /\ \A i \in 1..Len(l.doc.world.tiles) : IsPositional(l.doc.world.tiles[i].coord)

\* ------------------------------------------------------------------ claims
\* C1: whenever do_turn has read and decoded a line and the turn function
\* has returned an output, then, debug or not, exactly one line of standard
\* output starts with the sentinel, and it is the sentinel followed by the
\* to_json() text of that output: no diagnostic line starts with the
\* sentinel.
C1_SentinelFraming ==
    \A d \in Runs :
        (driver = "do_turn" /\ pc[d] = "done" /\ player_output[d] # <<>>)
            => SentinelLines(stdout[d])
                   = << <<SENTINEL>> \o PlayerOutput_to_json(player_output[d][1]) >>

\* C2: get_my_units() returns exactly the units whose player field equals
\* player_id, in their original order.
C2_OwnershipFilter ==
    \A d \in Runs :
        player_input[d] # <<>> =>
            LET input == player_input[d][1]
                owned(u) == u.player = input.player_id
            IN  PlayerInput_get_my_units(input) = SelectSeq(input.player_world.units, owned)

\* C3: a memory value m other than null that the player passes to
\* PlayerOutput is the memory field of the encoded output, unchanged.  (The
\* turn function "remember" passes the memory of its input.)
C3_MemoryVerbatim ==
    \A d \in Runs :
        (driver = "do_turn" /\ turn_function.kind = "remember"
            /\ player_output[d] # <<>> /\ player_input[d][1].memory # JNull)
            => PlayerOutput_output(player_output[d][1]).memory = player_input[d][1].memory

\* C5: when the turn function raises on a decoded input, do_turn ends in the
\* fatal state and no line of standard output starts with the sentinel,
\* debug or not.
C5_TurnFailureEmitsNothing ==
    \A d \in Runs :
        (driver = "do_turn" /\ turn_function.kind = "raises" /\ player_input[d] # <<>>)
            => /\ SentinelLines(stdout[d]) = <<>>
               /\ pc[d] \in {"turn_function", "fatal"}

\* C10: on the same standard input and with the same turn function, the run
\* with debug and the run without end alike (both done or both fatal), with
\* the same calls of the turn function and the same lines that start with
\* the sentinel; in the debug run every other line comes before the
\* sentinel line.
C10_DebugDoesNotInterfere ==
    (driver = "do_turn" /\ Terminated(TRUE) /\ Terminated(FALSE))
        => /\ pc[TRUE] = pc[FALSE]
           /\ calls[TRUE] = calls[FALSE]
           /\ SentinelLines(stdout[TRUE]) = SentinelLines(stdout[FALSE])
           /\ LET ls == Lines(stdout[TRUE]) IN
              \A i \in 1..Len(ls), j \in 1..Len(ls) :
                  (~StartsWithSentinel(ls[i]) /\ StartsWithSentinel(ls[j])) => i < j

\* C4: when the first line is not JSON, or lacks player_id, turn, world,
\* world.units, world.tiles, a unit's location or a tile's coord, do_turn
\* goes on to the fatal state: debug or not, the turn function is not called,
\* no line of standard output starts with the sentinel, and Done is not
\* reached.
C4_MalformedInputIsFatal ==
    (driver = "do_turn" /\ stdin # <<>>
        /\ (~stdin[1].json \/ LacksRequiredField(stdin[1].doc)))
        => \A d \in Runs :
              /\ calls[d] = <<>>
              /\ SentinelLines(stdout[d]) = <<>>
              /\ pc[d] \in {"for", "from_json", "fatal"}
              /\ pc[d] # "fatal" => ENABLED Step(d)

C4_Witness ==
    /\ driver = "do_turn"
    /\ stdin # <<>>
    /\ stdin[1].json
    /\ "player_id" \notin DOMAIN stdin[1].doc
    /\ \A d \in Runs : pc[d] = "fatal"

\* C6: on one or more well-formed lines an invocation of either driver reads
\* and decodes the first line only, calls the turn function once, on that
\* line, writes at most one protocol line, and ends in Done (in the fatal
\* state only when the turn function raises); it never reads a second line.
C6_SingleShot ==
    (stdin # <<>> /\ \A i \in 1..Len(stdin) : WellFormedLine(stdin[i]))
        => \A d \in Runs :
              /\ nread[d] <= 1
              /\ line[d] # <<>> => line[d] = <<stdin[1]>>
              /\ player_input[d] # <<>> => player_input[d] = <<Decode(stdin[1]).val>>
              /\ Len(calls[d]) <= 1
              /\ calls[d] # <<>> => calls[d] = player_input[d]
              /\ Len(ProtocolWrites(stdout[d])) <= 1
              /\ pc[d] = "fatal" => (turn_function.kind = "raises" /\ Len(calls[d]) = 1)
              /\ pc[d] = "done" =>
                    /\ nread[d] = 1
                    /\ Len(calls[d]) = 1
                    /\ driver = "do_turn" => Len(ProtocolWrites(stdout[d])) = 1

C6_Witness ==
    /\ driver = "do_turn"
    /\ Len(stdin) >= 2
    /\ \A i \in 1..Len(stdin) : WellFormedLine(stdin[i])
    /\ \A d \in Runs : pc[d] = "done" /\ Len(calls[d]) = 1

\* C7: on an empty standard input do_turn goes to Done, not to the fatal
\* state, without calling the turn function and without writing anything,
\* debug or not.
C7_EndOfInputIsGraceful ==
    (driver = "do_turn" /\ stdin = <<>>)
        => \A d \in Runs :
              /\ pc[d] \in {"for", "done"}
              /\ calls[d] = <<>>
              /\ stdout[d] = <<>>
              /\ pc[d] = "for" => ENABLED Step(d)

C7_Witness ==
    /\ driver = "do_turn"
    /\ stdin = <<>>
    /\ \A d \in Runs : pc[d] = "done"

\* C8: decoding never fails on the type of a tile: a first line with every
\* field and positional coordinates is decoded, whatever its tags, and the
\* tile with tag "wall" is Wall, with "floor" Floor, with "exit" Exit, and
\* with any other tag Wall.
C8_TolerantTileType ==
    (stdin # <<>> /\ WellFormedLine(stdin[1]))
        => \A d \in Runs :
              pc[d] \notin {"for", "from_json"} =>
                  /\ player_input[d] # <<>>
                  /\ LET wire == stdin[1].doc.world.tiles
                         tiles == player_input[d][1].player_world.tiles
                     IN  /\ Len(tiles) = Len(wire)
                         /\ \A i \in 1..Len(wire) :
                               /\ wire[i].type = "wall" => tiles[i].tile_type = "WALL"
                               /\ wire[i].type = "floor" => tiles[i].tile_type = "FLOOR"
                               /\ wire[i].type = "exit" => tiles[i].tile_type = "EXIT"
                               /\ wire[i].type \notin {"wall", "floor", "exit"}
                                     => tiles[i].tile_type = "WALL"

C8_Witness ==
    \E d \in Runs :
        /\ player_input[d] # <<>>
        /\ \E i \in 1..Len(stdin[1].doc.world.tiles) :
              /\ stdin[1].doc.world.tiles[i].type = "lava"
              /\ player_input[d][1].player_world.tiles[i].tile_type = "WALL"

\* C9: on a first line with every field, a unit's location and a tile's coord
\* given as the array [x, y] are decoded as Coord(x, y), first element x and
\* second y; when one of them is given as a field-keyed object instead, the
\* decoding fails and no input is produced.
C9_CoordIsPositional ==
    (stdin # <<>> /\ stdin[1].json /\ HasEveryField(stdin[1].doc))
        => LET units == stdin[1].doc.world.units
               tiles == stdin[1].doc.world.tiles
           IN  \A d \in Runs :
                 /\ ((\E i \in 1..Len(units) : units[i].location.t = "dict")
                        \/ (\E i \in 1..Len(tiles) : tiles[i].coord.t = "dict"))
                      => (player_input[d] = <<>> /\ pc[d] \in {"for", "from_json", "fatal"})
                 /\ ((\A i \in 1..Len(units) : IsPositional(units[i].location))
                        /\ (\A i \in 1..Len(tiles) : IsPositional(tiles[i].coord))
                        /\ pc[d] \notin {"for", "from_json"})
                      => /\ player_input[d] # <<>>
                         /\ LET w == player_input[d][1].player_world IN
                            /\ Len(w.units) = Len(units) /\ Len(w.tiles) = Len(tiles)
                            /\ \A i \in 1..Len(units) :
                                  /\ w.units[i].location.x = units[i].location.list[1]
                                  /\ w.units[i].location.y = units[i].location.list[2]
                            /\ \A i \in 1..Len(tiles) :
                                  /\ w.tiles[i].coord.x = tiles[i].coord.list[1]
                                  /\ w.tiles[i].coord.y = tiles[i].coord.list[2]

C9_Witness ==
    \E d \in Runs :
        /\ player_input[d] # <<>>
        /\ stdin[1].doc.world.units # <<>> /\ stdin[1].doc.world.tiles # <<>>
        /\ stdin[1].doc.world.units[1].location = JList(<<3, 4>>)
        /\ stdin[1].doc.world.tiles[1].coord = JList(<<4, 3>>)
        /\ player_input[d][1].player_world.units[1].location = Coord(3, 4)
        /\ player_input[d][1].player_world.tiles[1].coord = Coord(4, 3)

====
